---- MODULE Spec2Model ----
(***************************************************************************)
(* Model of kungfu yijinjing io.cpp: the ipc address resolver, the no-op   *)
(* and nanomsg notification publishers, the nanomsg observer, the master   *)
(* service client and the io_device / io_device_client factories.          *)
(*                                                                         *)
(* Strings are TLA+ strings: \o is std::string concatenation and Len is    *)
(* std::string::length, so addresses are built exactly as io.cpp builds    *)
(* them.  The nanomsg socket wrapper, the protocol/category name tables    *)
(* and the coordinator ("master") process live outside io.cpp; they are    *)
(* modelled at their interface.                                            *)
(***************************************************************************)
EXTENDS Integers, Sequences, FiniteSets, TLC

VARIABLES
    dev,        \* the process's io_device / io_device_client (NoDevice when none)
    conns,      \* open transport connections: set of [owner, url]
    wire,       \* url -> messages sent towards the endpoint bound at url, not yet taken
    inbox,      \* frames delivered to the observer's SUBSCRIBE socket, not yet received
    replies,    \* replies delivered to the master service's REQUEST socket, not yet received
    call,       \* the request() call in progress on the master service client
    ret,        \* the last completed call: what was called and what the caller got
    resolver    \* address resolver harness: inputs and the urls computed from them

vars == <<dev, conns, wire, inbox, replies, call, ret, resolver>>

(***************************************************************************)
(* Bounds                                                                  *)
(***************************************************************************)
MaxQueue == 1

Messages == {"{}", "hello"}
ProcessNames == {"td", "strategy"}
Groups == {"master", "g", "g/x"}
Names == {"master", "x/master", "a"}

(***************************************************************************)
(* Protocol roles, categories, locations                                   *)
(***************************************************************************)
Protocols == {"PUSH", "PULL", "PUBLISH", "SUBSCRIBE", "REQUEST", "REPLY"}
Modes == {"LIVE", "REPLAY"}
Categories == {"SYSTEM", "STRATEGY"}

Locations == [mode : Modes, category : Categories, group : Groups, name : Names]

location(m, c, g, n) == [mode |-> m, category |-> c, group |-> g, name |-> n]

\* faulty variant: the table maps only the binding roles, a connecting role
\* is handed back unchanged
get_opposite_protol_oneway(p) ==
    CASE p = "PUSH" -> "PULL"
      [] p = "PUBLISH" -> "SUBSCRIBE"
      [] p = "REPLY" -> "REQUEST"
      [] OTHER -> p

get_opposite_protol(p) ==
    CASE p = "PUSH" -> "PULL"
      [] p = "PULL" -> "PUSH"
      [] p = "PUBLISH" -> "SUBSCRIBE"
      [] p = "SUBSCRIBE" -> "PUBLISH"
      [] p = "REQUEST" -> "REPLY"
      [] p = "REPLY" -> "REQUEST"

get_protocol_name(p) ==
    CASE p = "PUSH" -> "push"
      [] p = "PULL" -> "pull"
      [] p = "PUBLISH" -> "pub"
      [] p = "SUBSCRIBE" -> "sub"
      [] p = "REQUEST" -> "req"
      [] p = "REPLY" -> "rep"

get_category_name(c) ==
    CASE c = "SYSTEM" -> "system"
      [] c = "STRATEGY" -> "strategy"

KF_DIR_SOCKET == "socket"

DEFAULT_NOTICE_TIMEOUT == 1000

RECURSIVE make_path(_)
make_path(parts) ==
    IF Len(parts) = 1 THEN parts[1]
    ELSE parts[1] \o "/" \o make_path(Tail(parts))

(***************************************************************************)
(* ipc_url_factory                                                         *)
(***************************************************************************)
\* faulty variant: the group is left out of the socket directory
make_url_bind_nogroup(loc, p) ==
    LET socket_dir == make_path(<<KF_DIR_SOCKET, get_category_name(loc.category)>>)
    IN  "ipc://" \o socket_dir \o "/" \o loc.name \o "." \o get_protocol_name(p)

make_url_bind(loc, p) ==
    LET socket_dir == make_path(<<KF_DIR_SOCKET, get_category_name(loc.category), loc.group>>)
    IN  "ipc://" \o socket_dir \o "/" \o loc.name \o "." \o get_protocol_name(p)

\* faulty variant: the role is not replaced by its opposite
make_url_connect_sameprotocol(loc, p) ==
    LET socket_dir == make_path(<<KF_DIR_SOCKET, get_category_name(loc.category), loc.group>>)
    IN  "ipc://" \o socket_dir \o "/" \o loc.name \o "." \o get_protocol_name(p)

make_url_connect(loc, p) ==
    LET socket_dir == make_path(<<KF_DIR_SOCKET, get_category_name(loc.category), loc.group>>)
    IN  "ipc://" \o socket_dir \o "/" \o loc.name \o "."
            \o get_protocol_name(get_opposite_protol(p))

MasterLocation == location("LIVE", "SYSTEM", "master", "master")

(***************************************************************************)
(* Call results: a returned value or a thrown exception                    *)
(***************************************************************************)
Value(v) == [kind |-> "return", value |-> v]
Throw(e) == [kind |-> "throw", error |-> e]

NoCall == [op |-> "none"]

(***************************************************************************)
(* nanomsg socket wrapper (interface only)                                 *)
(***************************************************************************)
SendOutcomes == {"ok", "fail", "error"}
RecvOutcomes == {"frame", "timeout", "error"}
ConnectFailures == {"none", "observer", "service", "publisher"}

\* socket::socket(protocol) followed by socket::connect(url)
socket_connect(p, url) == [protocol |-> p, url |-> url, message |-> ""]

\* socket::send(msg): status 0 on success, non-zero on a failed send, or a
\* thrown transport error.  sends lists the send attempts made.
socket_send(sock, msg, outcome) ==
    [result |-> IF outcome = "error" THEN Throw("nn_exception")
                ELSE Value(IF outcome = "ok" THEN 0 ELSE 0 - 1),
     sends  |-> <<[url |-> sock.url, msg |-> msg, outcome |-> outcome]>>]

\* socket::recv(): the length of the received frame, which becomes
\* last_message(); a negative count when the receive timed out.
socket_recv(sock, queue, outcome) ==
    IF outcome = "frame"
    THEN [rc |-> Len(Head(queue)), message |-> Head(queue), rest |-> Tail(queue),
          thrown |-> FALSE]
    ELSE [rc |-> 0 - 1, message |-> "", rest |-> queue, thrown |-> outcome = "error"]

(***************************************************************************)
(* noop_publisher                                                          *)
(***************************************************************************)
noop_publisher == [variant |-> "noop_publisher"]

noop_publisher_notify == [result |-> Value(0), sends |-> <<>>]

\* faulty variant: publish succeeds silently
noop_publisher_publish_silent(json_message) == [result |-> Value(0), sends |-> <<>>]

noop_publisher_publish(json_message) ==
    [result |-> Throw("journal_error"), sends |-> <<>>]

(***************************************************************************)
(* nanomsg_publisher                                                       *)
(***************************************************************************)
\* faulty variant: the address is resolved with make_url_bind
nanomsg_publisher_bindurl(low_latency) ==
    [variant |-> "nanomsg_publisher", low_latency |-> low_latency,
     socket |-> socket_connect("PUSH", make_url_bind(MasterLocation, "PUSH"))]

nanomsg_publisher(low_latency) ==
    [variant |-> "nanomsg_publisher", low_latency |-> low_latency,
     socket |-> socket_connect("PUSH", make_url_connect(MasterLocation, "PUSH"))]

\* faulty variant: the message is sent twice
nanomsg_publisher_publish_twice(pub, json_message, outcome) ==
    LET e == socket_send(pub.socket, json_message, outcome)
    IN  [e EXCEPT !.sends = e.sends \o e.sends]

nanomsg_publisher_publish(pub, json_message, outcome) ==
    socket_send(pub.socket, json_message, outcome)

\* faulty variant: the low-latency flag is ignored
nanomsg_publisher_notify_always(pub, outcome) ==
    nanomsg_publisher_publish(pub, "{}", outcome)

nanomsg_publisher_notify(pub, outcome) ==
    IF pub.low_latency THEN [result |-> Value(0), sends |-> <<>>]
    ELSE nanomsg_publisher_publish(pub, "{}", outcome)

(***************************************************************************)
(* nanomsg_observer                                                        *)
(***************************************************************************)
\* faulty variant: the timeout choice is inverted
nanomsg_observer_inverted(low_latency) ==
    LET timeout == IF low_latency THEN DEFAULT_NOTICE_TIMEOUT ELSE 0
    IN  [variant |-> "nanomsg_observer", timeout |-> timeout,
         subscription |-> "",
         socket |-> socket_connect("SUBSCRIBE",
                        make_url_connect(MasterLocation, "SUBSCRIBE"))]

nanomsg_observer(low_latency) ==
    LET timeout == IF low_latency THEN 0 ELSE DEFAULT_NOTICE_TIMEOUT
    IN  [variant |-> "nanomsg_observer", timeout |-> timeout,
         subscription |-> "",
         socket |-> socket_connect("SUBSCRIBE",
                        make_url_connect(MasterLocation, "SUBSCRIBE"))]

\* faulty variant: off-by-one threshold
nanomsg_observer_wait_atleast2(rc) == rc >= 2

\* faulty variant: the byte count is read as a truth value
nanomsg_observer_wait_nonzero(rc) == rc # 0

nanomsg_observer_wait(rc) == rc > 2

nanomsg_observer_get_notice(obs) == obs.socket.message

(***************************************************************************)
(* nanomsg_master_service                                                  *)
(***************************************************************************)
\* faulty variant: the coordinator is looked up in another group
nanomsg_master_service_group_g ==
    [variant |-> "nanomsg_master_service",
     socket |-> socket_connect("REQUEST",
                    make_url_connect(location("LIVE", "SYSTEM", "g", "master"), "REQUEST"))]

nanomsg_master_service ==
    [variant |-> "nanomsg_master_service",
     socket |-> socket_connect("REQUEST", make_url_connect(MasterLocation, "REQUEST"))]

Null == [variant |-> "null"]

NoDevice ==
    [kind |-> "none", name |-> "", low_latency |-> FALSE,
     publisher |-> Null, observer |-> Null, service |-> Null]

(***************************************************************************)
(* Transport state helpers                                                 *)
(***************************************************************************)
WireUrls == {make_url_bind(MasterLocation, p) : p \in Protocols}

MasterPullUrl == make_url_bind(MasterLocation, "PULL")
MasterPublishUrl == make_url_bind(MasterLocation, "PUBLISH")
MasterReplyUrl == make_url_bind(MasterLocation, "REPLY")

Conn(owner, sock) == [owner |-> owner, url |-> sock.url]

\* a send can succeed only while the endpoint's queue has room
CanSend(sends) ==
    \A i \in 1..Len(sends) :
        sends[i].outcome = "ok" => Len(wire[sends[i].url]) < MaxQueue

RECURSIVE apply_sends(_, _)
apply_sends(w, sends) ==
    IF sends = <<>> THEN w
    ELSE LET s == Head(sends)
             w1 == IF s.outcome = "ok" THEN [w EXCEPT ![s.url] = Append(@, s.msg)] ELSE w
         IN  apply_sends(w1, Tail(sends))

Payloads(q) == [i \in 1..Len(q) |-> q[i].msg]

(***************************************************************************)
(* io_device / io_device_client factories                                  *)
(***************************************************************************)
\* faulty variant: the plain device is given the active publisher
io_device_create_active(low_latency) ==
    [kind |-> "io_device", name |-> "", low_latency |-> low_latency,
     publisher |-> nanomsg_publisher(low_latency), observer |-> Null, service |-> Null]

\* io_device::create_io_device
io_device_create(low_latency) ==
    [kind |-> "io_device", name |-> "", low_latency |-> low_latency,
     publisher |-> noop_publisher, observer |-> Null, service |-> Null]

\* the connections opened, in construction order, before the failing connect
client_opened(dv, failure) ==
    CASE failure = "observer" -> {}
      [] failure = "service" -> {Conn("observer", dv.observer.socket)}
      [] failure = "publisher" -> {Conn("observer", dv.observer.socket),
                                   Conn("service", dv.service.socket)}
      [] failure = "none" -> {Conn("observer", dv.observer.socket),
                              Conn("service", dv.service.socket),
                              Conn("publisher", dv.publisher.socket)}

\* faulty variant: the publisher is built without the device's flag
io_device_client_wired_defaultflag(name, low_latency) ==
    [kind |-> "io_device_client", name |-> name, low_latency |-> low_latency,
     publisher |-> nanomsg_publisher(FALSE),
     observer |-> nanomsg_observer(low_latency),
     service |-> nanomsg_master_service]

io_device_client_wired(name, low_latency) ==
    [kind |-> "io_device_client", name |-> name, low_latency |-> low_latency,
     publisher |-> nanomsg_publisher(low_latency),
     observer |-> nanomsg_observer(low_latency),
     service |-> nanomsg_master_service]

\* faulty variant: a failed master service connect is swallowed
io_device_client_create_halfwired(name, low_latency, failure) ==
    LET dv == io_device_client_wired(name, low_latency)
    IN  IF failure = "service"
        THEN [device |-> [dv EXCEPT !.service = Null],
              open |-> {Conn("observer", dv.observer.socket),
                        Conn("publisher", dv.publisher.socket)},
              result |-> Value("io_device_client")]
        ELSE [device |-> IF failure = "none" THEN dv ELSE NoDevice,
              open |-> IF failure = "none" THEN client_opened(dv, failure) ELSE {},
              result |-> IF failure = "none" THEN Value("io_device_client")
                         ELSE Throw("nn_exception")]

\* io_device_client::io_device_client, then create_io_device's publisher_
\* assignment.  A throwing connect unwinds: the members built so far are
\* destroyed and their destructors close what they opened.
io_device_client_create(name, low_latency, failure) ==
    LET dv == io_device_client_wired(name, low_latency)
        opened == client_opened(dv, failure)
        closed_by_unwinding == IF failure = "none" THEN {} ELSE opened
    IN  [device |-> IF failure = "none" THEN dv ELSE NoDevice,
         open |-> opened \ closed_by_unwinding,
         result |-> IF failure = "none" THEN Value("io_device_client")
                    ELSE Throw("nn_exception")]

\* faulty variant: closing a connection that is no longer open is an error
socket_close_strict(open, c) ==
    [open |-> open \ {c},
     result |-> IF c \in open THEN Value(0) ELSE Throw("nn_exception")]

\* socket::close(): the connection is released if it is still open; closing
\* one that is already closed does nothing and raises nothing
socket_close(open, c) ==
    [open |-> open \ {c}, result |-> Value(0)]

\* ~nanomsg_publisher: socket_.close(), then the socket_ member is torn down
\* and closes itself again
nanomsg_publisher_destroy(open, pub) ==
    LET c == Conn("publisher", pub.socket)
        first == socket_close(open, c)
    IN  <<first, socket_close(first.open, c)>>

\* faulty variant: the publisher destructor does not close its socket
device_closes_nopublisher(dv) ==
    (IF dv.observer.variant = "nanomsg_observer"
        THEN {Conn("observer", dv.observer.socket)} ELSE {})
    \cup (IF dv.service.variant = "nanomsg_master_service"
        THEN {Conn("service", dv.service.socket)} ELSE {})

\* ~nanomsg_master_service, ~nanomsg_observer, ~nanomsg_publisher
device_closes(dv) ==
    (IF dv.observer.variant = "nanomsg_observer"
        THEN {Conn("observer", dv.observer.socket)} ELSE {})
    \cup (IF dv.service.variant = "nanomsg_master_service"
        THEN {Conn("service", dv.service.socket)} ELSE {})
    \cup (IF dv.publisher.variant = "nanomsg_publisher"
        THEN {Conn("publisher", dv.publisher.socket)} ELSE {})

(***************************************************************************)
(* Initial state                                                           *)
(***************************************************************************)
NoUrl == [role |-> "none", url |-> ""]

ResolverIdle == [loc |-> MasterLocation, role |-> "PUSH", bound |-> "", connected |-> NoUrl]

\* position of the master service client: idle or inside request() between
\* the send and the receive; unanswered marks an idle client whose last
\* operation on the channel was a send that no receive followed
Idle == [pc |-> "idle", unanswered |-> FALSE]

Unanswered == [pc |-> "idle", unanswered |-> TRUE]

Init ==
    /\ dev = NoDevice
    /\ conns = {}
    /\ wire = [u \in WireUrls |-> <<>>]
    /\ inbox = <<>>
    /\ replies = <<>>
    /\ call = Idle
    /\ ret = NoCall
    /\ resolver = ResolverIdle

(***************************************************************************)
(* Device lifecycle                                                        *)
(***************************************************************************)
CreateIoDevice(low_latency) ==
    /\ dev.kind = "none"
    /\ dev' = io_device_create(low_latency)
    /\ ret' = [op |-> "io_device::create_io_device", result |-> Value("io_device")]
    /\ UNCHANGED <<conns, wire, inbox, replies, call, resolver>>

CreateIoDeviceClient(name, low_latency, failure) ==
    /\ dev.kind = "none"
    /\ LET r == io_device_client_create(name, low_latency, failure)
       IN  /\ dev' = r.device
           /\ conns' = conns \cup r.open
           /\ ret' = [op |-> "io_device_client::create_io_device",
                      failure |-> failure, result |-> r.result]
    /\ UNCHANGED <<wire, inbox, replies, call, resolver>>

DestroyDevice ==
    /\ dev.kind # "none"
    /\ call.pc = "idle"
    /\ dev' = NoDevice
    /\ conns' = conns \ device_closes(dev)
    /\ inbox' = <<>>
    /\ replies' = <<>>
    /\ wire' = IF dev.service.variant = "nanomsg_master_service"
               THEN [wire EXCEPT ![dev.service.socket.url] = <<>>]
               ELSE wire
    /\ ret' = [op |-> "destroy", kind |-> dev.kind,
               closes |-> IF dev.publisher.variant = "nanomsg_publisher"
                          THEN nanomsg_publisher_destroy(conns, dev.publisher)
                          ELSE <<>>]
    /\ call' = Idle
    /\ UNCHANGED resolver

(***************************************************************************)
(* Publisher calls                                                         *)
(***************************************************************************)
Notify(outcome) ==
    /\ dev.kind # "none"
    /\ LET e == IF dev.publisher.variant = "noop_publisher"
                THEN noop_publisher_notify
                ELSE nanomsg_publisher_notify(dev.publisher, outcome)
       IN  /\ CanSend(e.sends)
           /\ wire' = apply_sends(wire, e.sends)
           /\ ret' = [op |-> "notify", variant |-> dev.publisher.variant,
                      low_latency |-> dev.low_latency,
                      result |-> e.result, sends |-> e.sends]
    /\ UNCHANGED <<dev, conns, inbox, replies, call, resolver>>

Publish(json_message, outcome) ==
    /\ dev.kind # "none"
    /\ LET e == IF dev.publisher.variant = "noop_publisher"
                THEN noop_publisher_publish(json_message)
                ELSE nanomsg_publisher_publish(dev.publisher, json_message, outcome)
       IN  /\ CanSend(e.sends)
           /\ wire' = apply_sends(wire, e.sends)
           /\ ret' = [op |-> "publish", variant |-> dev.publisher.variant,
                      arg |-> json_message,
                      result |-> e.result, sends |-> e.sends]
    /\ UNCHANGED <<dev, conns, inbox, replies, call, resolver>>

(***************************************************************************)
(* Observer calls                                                          *)
(***************************************************************************)
Wait(outcome) ==
    /\ dev.observer.variant = "nanomsg_observer"
    /\ outcome = "frame" => inbox # <<>>
    /\ outcome = "timeout" => inbox = <<>>
    /\ LET r == socket_recv(dev.observer.socket, inbox, outcome)
       IN  /\ inbox' = r.rest
           /\ dev' = [dev EXCEPT !.observer.socket.message =
                        IF r.thrown THEN @ ELSE r.message]
           /\ ret' = [op |-> "wait", outcome |-> outcome,
                      frame |-> IF outcome = "frame" THEN <<Head(inbox)>> ELSE <<>>,
                      result |-> IF r.thrown THEN Throw("nn_exception")
                                 ELSE Value(nanomsg_observer_wait(r.rc))]
    /\ UNCHANGED <<conns, wire, replies, call, resolver>>

GetNotice ==
    /\ dev.observer.variant = "nanomsg_observer"
    /\ ret' = [op |-> "get_notice",
               result |-> Value(nanomsg_observer_get_notice(dev.observer))]
    /\ UNCHANGED <<dev, conns, wire, inbox, replies, call, resolver>>

(***************************************************************************)
(* Master service client: request() sends, then blocks in recv_msg()       *)
(***************************************************************************)
\* faulty variant: the request text is handed back instead of the reply
nanomsg_master_service_request_echo(svc, json_message, queue, outcome) ==
    [socket_recv(svc.socket, queue, outcome) EXCEPT !.message = json_message]

\* return socket_.recv_msg()
nanomsg_master_service_request_reply(svc, json_message, queue, outcome) ==
    socket_recv(svc.socket, queue, outcome)

\* faulty variant: the request is sent twice
nanomsg_master_service_request_resend(svc, json_message, outcome) ==
    LET e == socket_send(svc.socket, json_message, outcome)
    IN  [e EXCEPT !.sends = e.sends \o e.sends]

\* socket_.send(json_message)
nanomsg_master_service_request_send(svc, json_message, outcome) ==
    socket_send(svc.socket, json_message, outcome)

\* socket_.send(json_message): the returned status is dropped; only a
\* thrown error leaves request() here.  A request that goes out replaces the
\* previous one on the REQUEST socket: the earlier request and replies to it
\* are discarded.
RequestSend(json_message, outcome) ==
    /\ dev.service.variant = "nanomsg_master_service"
    /\ call.pc = "idle"
    /\ LET e == nanomsg_master_service_request_send(dev.service, json_message, outcome)
       IN  /\ wire' = IF outcome = "ok"
                     THEN apply_sends([wire EXCEPT ![dev.service.socket.url] = <<>>],
                                      e.sends)
                     ELSE wire
           /\ replies' = IF outcome = "ok" THEN <<>> ELSE replies
           /\ IF e.result.kind = "throw"
              THEN /\ call' = Unanswered
                   /\ ret' = [op |-> "request", arg |-> json_message,
                              result |-> e.result, sends |-> e.sends,
                              recvs |-> 0, answered |-> <<>>]
              ELSE /\ call' = [pc |-> "recv", arg |-> json_message, sends |-> e.sends]
                   /\ UNCHANGED ret
    /\ UNCHANGED <<dev, conns, inbox, resolver>>

\* recv_msg() blocks until the reply arrives; a thrown error is a transport
\* failure of the connection, which loses the outstanding request
RequestRecv(outcome) ==
    /\ dev.service.variant = "nanomsg_master_service"
    /\ call.pc = "recv"
    /\ outcome \in {"frame", "error"}
    /\ outcome = "frame" => replies # <<>>
    /\ LET r == nanomsg_master_service_request_reply(dev.service, call.arg,
                                                     Payloads(replies), outcome)
       IN  /\ replies' = IF outcome = "frame" THEN Tail(replies) ELSE <<>>
           /\ wire' = IF outcome = "frame" THEN wire
                      ELSE [wire EXCEPT ![dev.service.socket.url] = <<>>]
           /\ ret' = [op |-> "request", arg |-> call.arg,
                      result |-> IF r.thrown THEN Throw("nn_exception")
                                 ELSE Value(r.message),
                      sends |-> call.sends, recvs |-> 1,
                      answered |-> IF outcome = "frame" THEN <<Head(replies)>> ELSE <<>>]
    /\ call' = Idle
    /\ UNCHANGED <<dev, conns, inbox, resolver>>

(***************************************************************************)
(* The coordinator ("master") process: binds PULL, PUBLISH and REPLY at    *)
(* the master location                                                     *)
(***************************************************************************)
MasterPull ==
    /\ wire[MasterPullUrl] # <<>>
    /\ wire' = [wire EXCEPT ![MasterPullUrl] = Tail(@)]
    /\ UNCHANGED <<dev, conns, inbox, replies, call, ret, resolver>>

MasterPublish(m) ==
    /\ dev.observer.variant = "nanomsg_observer"
    /\ dev.observer.socket.url = MasterPublishUrl
    /\ Len(inbox) < MaxQueue
    /\ inbox' = Append(inbox, m)
    /\ UNCHANGED <<dev, conns, wire, replies, call, ret, resolver>>

MasterReply(m) ==
    /\ wire[MasterReplyUrl] # <<>>
    /\ wire' = [wire EXCEPT ![MasterReplyUrl] = Tail(@)]
    /\ replies' = Append(replies, [for |-> Head(wire[MasterReplyUrl]), msg |-> m])
    /\ UNCHANGED <<dev, conns, inbox, call, ret, resolver>>

(***************************************************************************)
(* Specification of the device, its channels and the coordinator           *)
(***************************************************************************)
Next ==
    \/ \E low_latency \in BOOLEAN : CreateIoDevice(low_latency)
    \/ \E name \in ProcessNames, low_latency \in BOOLEAN, failure \in ConnectFailures :
          CreateIoDeviceClient(name, low_latency, failure)
    \/ DestroyDevice
    \/ \E outcome \in SendOutcomes : Notify(outcome)
    \/ \E m \in Messages, outcome \in SendOutcomes : Publish(m, outcome)
    \/ \E outcome \in RecvOutcomes : Wait(outcome)
    \/ GetNotice
    \/ \E m \in Messages, outcome \in SendOutcomes : RequestSend(m, outcome)
    \/ \E outcome \in RecvOutcomes : RequestRecv(outcome)
    \/ MasterPull
    \/ \E m \in Messages : MasterPublish(m)
    \/ \E m \in Messages : MasterReply(m)

Spec == Init /\ [][Next]_vars

(***************************************************************************)
(* Specification of the address resolver: a location and a role are        *)
(* drawn, then make_url_bind and make_url_connect are applied              *)
(***************************************************************************)
ResolverInit ==
    /\ dev = NoDevice
    /\ conns = {}
    /\ wire = [u \in WireUrls |-> <<>>]
    /\ inbox = <<>>
    /\ replies = <<>>
    /\ call = Idle
    /\ ret = NoCall
    /\ resolver \in [loc : Locations, role : Protocols, bound : {""}, connected : {NoUrl},
                     opposite : {"none"}, twice : {"none"}]

CallMakeUrlBind ==
    /\ resolver.bound = ""
    /\ resolver' = [resolver EXCEPT !.bound = make_url_bind(resolver.loc, resolver.role)]
    /\ UNCHANGED <<dev, conns, wire, inbox, replies, call, ret>>

CallMakeUrlConnect(p) ==
    /\ resolver' = [resolver EXCEPT
                      !.connected = [role |-> p, url |-> make_url_connect(resolver.loc, p)]]
    /\ UNCHANGED <<dev, conns, wire, inbox, replies, call, ret>>

\* the role substitution of make_url_connect, applied once and twice
CallGetOppositeProtol ==
    /\ resolver.opposite = "none"
    /\ resolver' = [resolver EXCEPT
                      !.opposite = get_opposite_protol(resolver.role),
                      !.twice = get_opposite_protol(get_opposite_protol(resolver.role))]
    /\ UNCHANGED <<dev, conns, wire, inbox, replies, call, ret>>

ResolverNext ==
    \/ CallMakeUrlBind
    \/ \E p \in Protocols : CallMakeUrlConnect(p)
    \/ CallGetOppositeProtol

SpecResolver == ResolverInit /\ [][ResolverNext]_vars

(***************************************************************************)
(* Specification of two bind addresses: two locations and two roles are    *)
(* drawn and make_url_bind is applied to each pair                         *)
(***************************************************************************)
PairInit ==
    /\ dev = NoDevice
    /\ conns = {}
    /\ wire = [u \in WireUrls |-> <<>>]
    /\ inbox = <<>>
    /\ replies = <<>>
    /\ call = Idle
    /\ ret = NoCall
    /\ resolver \in [loc : Locations, role : Protocols, bound : {""},
                     loc2 : Locations, role2 : Protocols, bound2 : {""}]

CallMakeUrlBindFirst ==
    /\ resolver.bound = ""
    /\ resolver' = [resolver EXCEPT !.bound = make_url_bind(resolver.loc, resolver.role)]
    /\ UNCHANGED <<dev, conns, wire, inbox, replies, call, ret>>

CallMakeUrlBindSecond ==
    /\ resolver.bound2 = ""
    /\ resolver' = [resolver EXCEPT !.bound2 = make_url_bind(resolver.loc2, resolver.role2)]
    /\ UNCHANGED <<dev, conns, wire, inbox, replies, call, ret>>

PairNext ==
    \/ CallMakeUrlBindFirst
    \/ CallMakeUrlBindSecond

SpecPair == PairInit /\ [][PairNext]_vars

(***************************************************************************)
(* io_device::connect_socket and io_device::bind_socket                    *)
(***************************************************************************)
Timeouts == {0, DEFAULT_NOTICE_TIMEOUT}

\* faulty variant: the address is resolved as for a bind
connect_socket_bindurl(loc, p, timeout) ==
    [protocol |-> p, url |-> make_url_bind(loc, p),
     attached |-> "connect", rcvtimeo |-> timeout]

connect_socket(loc, p, timeout) ==
    [protocol |-> p, url |-> make_url_connect(loc, p),
     attached |-> "connect", rcvtimeo |-> timeout]

bind_socket(loc, p, timeout) ==
    [protocol |-> p, url |-> make_url_bind(loc, p),
     attached |-> "bind", rcvtimeo |-> timeout]

NoSocket == [asked |-> [role |-> "none", timeout |-> 0], result |-> [kind |-> "none"]]

(***************************************************************************)
(* Specification of the endpoint factory: a location and a role are drawn, *)
(* the role is bound there and any role is connected there; either call    *)
(* can fail in the transport, and then no socket is returned               *)
(***************************************************************************)
SocketsInit ==
    /\ dev = NoDevice
    /\ conns = {}
    /\ wire = [u \in WireUrls |-> <<>>]
    /\ inbox = <<>>
    /\ replies = <<>>
    /\ call = Idle
    /\ ret = NoCall
    /\ resolver \in [loc : Locations, role : Protocols,
                     bsock : {NoSocket}, csock : {NoSocket}]

BindSocket(timeout, fails) ==
    /\ resolver.bsock = NoSocket
    /\ resolver' = [resolver EXCEPT !.bsock =
          [asked |-> [role |-> resolver.role, timeout |-> timeout],
           result |-> IF fails THEN Throw("nn_exception")
                      ELSE Value(bind_socket(resolver.loc, resolver.role, timeout))]]
    /\ UNCHANGED <<dev, conns, wire, inbox, replies, call, ret>>

ConnectSocket(p, timeout, fails) ==
    /\ resolver' = [resolver EXCEPT !.csock =
          [asked |-> [role |-> p, timeout |-> timeout],
           result |-> IF fails THEN Throw("nn_exception")
                      ELSE Value(connect_socket(resolver.loc, p, timeout))]]
    /\ UNCHANGED <<dev, conns, wire, inbox, replies, call, ret>>

SocketsNext ==
    \/ \E timeout \in Timeouts, fails \in BOOLEAN : BindSocket(timeout, fails)
    \/ \E p \in Protocols, timeout \in Timeouts, fails \in BOOLEAN :
          ConnectSocket(p, timeout, fails)

SpecSockets == SocketsInit /\ [][SocketsNext]_vars

(***************************************************************************)
(* Steps named for the properties below                                    *)
(***************************************************************************)
NotifyStep == \E outcome \in SendOutcomes : Notify(outcome)
PublishStep == \E m \in Messages, outcome \in SendOutcomes : Publish(m, outcome)
WaitStep == \E outcome \in RecvOutcomes : Wait(outcome)
MasterPublishStep == \E m \in Messages : MasterPublish(m)

RequestSendStep ==
    \E m \in Messages, outcome \in SendOutcomes : RequestSend(m, outcome)
RequestRecvStep == \E outcome \in RecvOutcomes : RequestRecv(outcome)

Returned(r, v) == r.kind = "return" /\ r.value = v
Thrown(r, e) == r.kind = "throw" /\ r.error = e

(***************************************************************************)
(* C1  Address symmetry: for every location L and role R, the address      *)
(* make_url_bind(L, R) equals make_url_connect(L, opposite(R)).            *)
(***************************************************************************)
AddressSymmetry ==
    (/\ resolver.bound # ""
     /\ resolver.connected.role = get_opposite_protol(resolver.role))
    => resolver.connected.url = resolver.bound

AddressSymmetryWitness ==
    /\ resolver.loc.group = "g/x"
    /\ resolver.role = "PUBLISH"
    /\ resolver.bound # ""
    /\ resolver.connected.role = "SUBSCRIBE"

(***************************************************************************)
(* C2  Low-latency notify bypass: on the active publisher notify() makes   *)
(* no send and returns 0 when low latency is on; otherwise it makes        *)
(* exactly one send, of the heartbeat "{}", and returns that send's        *)
(* status (or propagates its error).                                       *)
(***************************************************************************)
LowLatencyNotifyBypass ==
    (ret.op = "notify" /\ ret.variant = "nanomsg_publisher") =>
        IF ret.low_latency
        THEN ret.sends = <<>> /\ Returned(ret.result, 0)
        ELSE /\ Len(ret.sends) = 1
             /\ ret.sends[1].msg = "{}"
             /\ ret.sends[1].outcome = "ok" => Returned(ret.result, 0)
             /\ ret.sends[1].outcome = "fail" =>
                    ret.result.kind = "return" /\ ret.result.value # 0
             /\ ret.sends[1].outcome = "error" => ret.result.kind = "throw"

LowLatencyNotifyBypassWitness ==
    /\ ret.op = "notify"
    /\ ret.variant = "nanomsg_publisher"
    /\ ret.low_latency
    /\ wire[MasterPullUrl] = <<>>

(***************************************************************************)
(* C3  No-op publisher contract: notify() returns 0 without sending,       *)
(* publish(m) throws the dedicated journal_error for every m, and neither  *)
(* call changes the device or any channel.                                 *)
(***************************************************************************)
NoopPublisherContract ==
    /\ [](ret.op = "notify" /\ ret.variant = "noop_publisher"
            => Returned(ret.result, 0) /\ ret.sends = <<>>)
    /\ [](ret.op = "publish" /\ ret.variant = "noop_publisher"
            => Thrown(ret.result, "journal_error") /\ ret.sends = <<>>)
    /\ [][(dev.publisher.variant = "noop_publisher" /\ (NotifyStep \/ PublishStep))
            => UNCHANGED <<dev, conns, wire, inbox, replies, call>>]_vars

NoopPublisherContractWitness ==
    /\ ret.op = "publish"
    /\ ret.variant = "noop_publisher"
    /\ ret.arg = "hello"
    /\ ret.result.kind = "throw"

(***************************************************************************)
(* C4  Observer filtering: wait() on a received frame returns false when   *)
(* the frame is at most 2 bytes long and true when it is longer; after a   *)
(* true wait() the next get_notice() returns exactly that frame.           *)
(***************************************************************************)
ObserverFiltering ==
    /\ [](ret.op = "wait" /\ ret.frame # <<>> =>
            /\ ret.result.kind = "return"
            /\ ret.result.value = (Len(ret.frame[1]) > 2)
            /\ Len(ret.frame[1]) > 2 => dev.observer.socket.message = ret.frame[1])
    /\ [][(ret.op = "wait" /\ ret.frame # <<>> /\ Len(ret.frame[1]) > 2 /\ GetNotice)
            => ret'.result.value = ret.frame[1]]_vars

ObserverFilteringWitness ==
    /\ ret.op = "wait"
    /\ ret.frame = <<"hello">>
    /\ Returned(ret.result, TRUE)

RequestRoundTrip ==
    (ret.op = "request" /\ ret.result.kind = "return") =>
        /\ ret.answered # <<>>
        /\ ret.answered[1].for = ret.arg
        /\ ret.result.value = ret.answered[1].msg

RequestRoundTripWitness ==
    /\ ret.op = "request"
    /\ ret.arg = "{}"
    /\ Returned(ret.result, "hello")

(***************************************************************************)
(* C7  Send failures are reported and never retried: publish and request   *)
(* make at most one send attempt, a failed send surfaces from the same     *)
(* call as a non-zero status or a thrown error, and request does not go on *)
(* to wait for a reply after its send failed.                              *)
(***************************************************************************)
SendFailureReported ==
    /\ ret.op = "publish" =>
        /\ Len(ret.sends) <= 1
        /\ \A i \in 1..Len(ret.sends) :
              ret.sends[i].outcome # "ok" =>
                  (ret.result.kind = "throw" \/ ret.result.value # 0)
    /\ ret.op = "request" =>
        /\ Len(ret.sends) <= 1
        /\ \A i \in 1..Len(ret.sends) :
              ret.sends[i].outcome # "ok" => ret.result.kind = "throw"
    /\ call.pc = "recv" =>
        \A i \in 1..Len(call.sends) : call.sends[i].outcome = "ok"

(***************************************************************************)
(* C8  All-or-nothing construction: io_device_client::create_io_device     *)
(* either returns a device whose observer, master service and publisher    *)
(* are all connected, or throws and leaves no device.                      *)
(***************************************************************************)
AllOrNothingConstruction ==
    /\ dev.kind = "io_device_client" =>
        /\ dev.observer.variant = "nanomsg_observer"
        /\ dev.service.variant = "nanomsg_master_service"
        /\ dev.publisher.variant = "nanomsg_publisher"
        /\ Conn("observer", dev.observer.socket) \in conns
        /\ Conn("service", dev.service.socket) \in conns
        /\ Conn("publisher", dev.publisher.socket) \in conns
    /\ ret.op = "io_device_client::create_io_device" =>
        IF ret.failure = "none"
        THEN ret.result.kind = "return" /\ dev.kind = "io_device_client"
        ELSE ret.result.kind = "throw" /\ dev.kind = "none"

AllOrNothingConstructionWitness ==
    /\ ret.op = "io_device_client::create_io_device"
    /\ ret.failure = "service"
    /\ dev.kind = "none"

FactoryVariantSelection ==
    /\ [](dev.kind = "io_device" =>
            /\ dev.publisher.variant = "noop_publisher"
            /\ dev.observer = Null
            /\ dev.service = Null
            /\ ret.op = "notify" => Returned(ret.result, 0)
            /\ ret.op = "publish" => ret.result.kind = "throw")
    /\ [](dev.kind = "io_device_client" =>
            /\ dev.publisher.variant = "nanomsg_publisher"
            /\ dev.observer.variant = "nanomsg_observer"
            /\ dev.service.variant = "nanomsg_master_service")
    /\ [][(dev.kind # "none" /\ dev'.kind # "none") =>
            /\ dev'.kind = dev.kind
            /\ dev'.publisher.variant = dev.publisher.variant
            /\ dev'.observer.variant = dev.observer.variant
            /\ dev'.service.variant = dev.service.variant]_vars

FactoryVariantSelectionWitness ==
    /\ dev.kind = "io_device"
    /\ ret.op = "notify"
    /\ ret.variant = "noop_publisher"


(***************************************************************************)
(* C11  Collision-free addressing, as stated: two (location, role) pairs   *)
(* that differ in mode, category, group, name or role get different        *)
(* make_url_bind addresses.                                                *)
(***************************************************************************)
CollisionFreeAddressing ==
    (/\ resolver.bound # ""
     /\ resolver.bound2 # ""
     /\ <<resolver.loc, resolver.role>> # <<resolver.loc2, resolver.role2>>)
    => resolver.bound # resolver.bound2

(***************************************************************************)
(* C11  Collision-free addressing, as the code has it: the mode is not     *)
(* part of the address, so two pairs equal in category, group, name and    *)
(* role share their address whatever their modes; two pairs that differ    *)
(* in category, group, name or role, with groups and names free of "/",    *)
(* get different addresses.                                                *)
(***************************************************************************)
PlainGroups == {"master", "g"}
PlainNames == {"master", "a"}

SameButMode(a, b) ==
    /\ a.category = b.category
    /\ a.group = b.group
    /\ a.name = b.name

CollisionFreeUpToMode ==
    (resolver.bound # "" /\ resolver.bound2 # "") =>
        /\ (SameButMode(resolver.loc, resolver.loc2) /\ resolver.role = resolver.role2)
               => resolver.bound = resolver.bound2
        /\ (/\ {resolver.loc.group, resolver.loc2.group} \subseteq PlainGroups
            /\ {resolver.loc.name, resolver.loc2.name} \subseteq PlainNames
            /\ ~(SameButMode(resolver.loc, resolver.loc2) /\ resolver.role = resolver.role2))
               => resolver.bound # resolver.bound2

CollisionFreeUpToModeWitness ==
    /\ resolver.bound # ""
    /\ resolver.bound2 # ""
    /\ resolver.loc = location("LIVE", "SYSTEM", "g", "a")
    /\ resolver.loc2 = location("LIVE", "SYSTEM", "master", "a")
    /\ resolver.role = resolver.role2


(***************************************************************************)
(* C12  Opposite-role involution: opposite is defined on each of the six   *)
(* roles, pairs PUSH with PULL, PUBLISH with SUBSCRIBE and REQUEST with    *)
(* REPLY, and opposite(opposite(R)) = R.                                   *)
(***************************************************************************)
RolePairs == {{"PUSH", "PULL"}, {"PUBLISH", "SUBSCRIBE"}, {"REQUEST", "REPLY"}}

OppositeRoleInvolution ==
    resolver.opposite # "none" =>
        /\ resolver.opposite \in Protocols
        /\ {resolver.role, resolver.opposite} \in RolePairs
        /\ resolver.twice = resolver.role

OppositeRoleInvolutionWitness ==
    /\ resolver.role = "REPLY"
    /\ resolver.opposite = "REQUEST"
    /\ resolver.twice = "REPLY"


(***************************************************************************)
(* C13  Timeout selection: an observer built with low latency on has       *)
(* receive timeout 0, one built with it off has DEFAULT_NOTICE_TIMEOUT;    *)
(* the timeout is set at construction and no later call changes it.        *)
(***************************************************************************)
TimeoutSelection ==
    /\ [](dev.observer.variant = "nanomsg_observer" =>
             dev.observer.timeout =
                 IF dev.low_latency THEN 0 ELSE DEFAULT_NOTICE_TIMEOUT)
    /\ [][(dev.observer.variant = "nanomsg_observer"
             /\ dev'.observer.variant = "nanomsg_observer")
            => dev'.observer.timeout = dev.observer.timeout]_vars

TimeoutSelectionWitness ==
    /\ dev.observer.variant = "nanomsg_observer"
    /\ ~dev.low_latency
    /\ dev.observer.timeout = DEFAULT_NOTICE_TIMEOUT
    /\ ret.op = "wait"


(***************************************************************************)
(* C14  Receive timeout is not an error: a wait() in which no message      *)
(* arrives within the timeout returns false and raises nothing, and the    *)
(* observer stays connected and usable: a wait() after it returns true     *)
(* for a message of more than 2 bytes that arrived later.                  *)
(***************************************************************************)
TimedOut == ret.op = "wait" /\ ret.outcome = "timeout"

ReceiveTimeoutIsNotAnError ==
    /\ [](TimedOut =>
            /\ Returned(ret.result, FALSE)
            /\ dev.observer.variant = "nanomsg_observer"
            /\ Conn("observer", dev.observer.socket) \in conns)
    /\ [][(TimedOut /\ Wait("frame") /\ Len(Head(inbox)) > 2) =>
            /\ Returned(ret'.result, TRUE)
            /\ dev'.observer.socket.message = Head(inbox)]_vars
    /\ [](TimedOut /\ inbox # <<>> => ENABLED Wait("frame"))

ReceiveTimeoutIsNotAnErrorWitness ==
    /\ TimedOut
    /\ inbox = <<"hello">>


(***************************************************************************)
(* C15  Single fixed coordination location: the publisher, the observer    *)
(* and the master service client all connect to the address that           *)
(* make_url_connect gives for the one location (LIVE, SYSTEM, "master",    *)
(* "master"), whatever the name and the low-latency flag of the process.   *)
(***************************************************************************)
SingleCoordinationLocation ==
    LET master == location("LIVE", "SYSTEM", "master", "master")
    IN  /\ dev.publisher.variant = "nanomsg_publisher" =>
               /\ dev.publisher.socket.protocol = "PUSH"
               /\ dev.publisher.socket.url = make_url_connect(master, "PUSH")
        /\ dev.observer.variant = "nanomsg_observer" =>
               /\ dev.observer.socket.protocol = "SUBSCRIBE"
               /\ dev.observer.socket.url = make_url_connect(master, "SUBSCRIBE")
        /\ dev.service.variant = "nanomsg_master_service" =>
               /\ dev.service.socket.protocol = "REQUEST"
               /\ dev.service.socket.url = make_url_connect(master, "REQUEST")

SingleCoordinationLocationWitness ==
    /\ dev.kind = "io_device_client"
    /\ dev.name = "strategy"
    /\ dev.low_latency
    /\ dev.publisher.variant = "nanomsg_publisher"
    /\ dev.service.socket.url = "ipc://socket/system/master/master.rep"


GenericEndpointFactory ==
    LET b == resolver.bsock
        c == resolver.csock
    IN  /\ b.result.kind = "return" =>
               /\ b.result.value.protocol = b.asked.role
               /\ b.result.value.attached = "bind"
               /\ b.result.value.url = make_url_bind(resolver.loc, b.asked.role)
               /\ b.result.value.rcvtimeo = b.asked.timeout
        /\ c.result.kind = "return" =>
               /\ c.result.value.protocol = c.asked.role
               /\ c.result.value.attached = "connect"
               /\ c.result.value.url = make_url_connect(resolver.loc, c.asked.role)
               /\ c.result.value.rcvtimeo = c.asked.timeout
        /\ (/\ b.result.kind = "return"
            /\ c.result.kind = "return"
            /\ c.asked.role = get_opposite_protol(b.asked.role))
               => c.result.value.url = b.result.value.url

GenericEndpointFactoryWitness ==
    /\ resolver.bsock.result.kind = "return"
    /\ resolver.csock.result.kind = "return"
    /\ resolver.bsock.asked.role = "REPLY"
    /\ resolver.csock.asked.role = "REQUEST"
    /\ resolver.csock.asked.timeout = DEFAULT_NOTICE_TIMEOUT
    /\ resolver.bsock.asked.timeout = 0


(***************************************************************************)
(* C18  Request/reply alternation, as stated: every request(m) makes       *)
(* exactly one send and then exactly one receive, so on the channel a      *)
(* send never follows a send without a receive between them, and the       *)
(* reply a request returns is the one that answers it.                     *)
(***************************************************************************)
RequestReplyAlternation ==
    /\ [](ret.op = "request" =>
            /\ Len(ret.sends) = 1
            /\ ret.recvs = 1
            /\ ret.answered # <<>> => ret.answered[1].for = ret.arg)
    /\ [][RequestSendStep => ~call.unanswered]_vars

(***************************************************************************)
(* C18  Request/reply alternation, as the code has it: every request(m)    *)
(* makes exactly one send attempt; if the send throws, request makes no    *)
(* receive, otherwise exactly one receive follows on the same channel.     *)
(* So every receive on the channel directly follows the send of the same   *)
(* request, two sends follow each other only when the first one threw,     *)
(* and the reply a request returns is the one that answers it.             *)
(***************************************************************************)
RequestReplyAlternationUnlessThrown ==
    /\ [](ret.op = "request" =>
            /\ Len(ret.sends) = 1
            /\ ret.sends[1].url = dev.service.socket.url
            /\ ret.sends[1].msg = ret.arg
            /\ ret.recvs = IF ret.sends[1].outcome = "error" THEN 0 ELSE 1
            /\ ret.answered # <<>> =>
                   /\ ret.answered[1].for = ret.arg
                   /\ Returned(ret.result, ret.answered[1].msg))
    /\ [](call.pc = "recv" =>
            /\ Len(call.sends) = 1
            /\ call.sends[1].msg = call.arg
            /\ call.sends[1].outcome # "error")
    /\ [][RequestRecvStep =>
            /\ call.pc = "recv"
            /\ ret'.arg = call.arg
            /\ ret'.sends = call.sends
            /\ call'.pc = "idle" /\ ~call'.unanswered]_vars
    /\ [][RequestSendStep =>
            \/ call'.pc = "recv"
            \/ /\ call'.pc = "idle"
               /\ call'.unanswered
               /\ ret'.sends[1].outcome = "error"]_vars

RequestReplyAlternationUnlessThrownWitness ==
    /\ ret.op = "request"
    /\ ret.recvs = 1
    /\ ret.sends[1].outcome = "fail"
    /\ call.pc = "idle"


LowLatencyConsistency ==
    /\ [](dev.kind = "io_device_client" =>
            /\ dev.publisher.low_latency = dev.low_latency
            /\ dev.observer.timeout = 0 <=> dev.publisher.low_latency)
    /\ [][(dev.kind = "io_device_client" /\ NotifyStep) =>
            IF dev.observer.timeout = 0
            THEN /\ ret'.sends = <<>>
                 /\ Returned(ret'.result, 0)
                 /\ wire' = wire
                 /\ inbox' = inbox
            ELSE /\ Len(ret'.sends) = 1
                 /\ inbox' = inbox]_vars

LowLatencyConsistencyWitness ==
    /\ dev.kind = "io_device_client"
    /\ dev.low_latency
    /\ dev.observer.timeout = 0
    /\ ret.op = "notify"
    /\ ret.sends = <<>>
    /\ inbox = <<"hello">>

====
